---- MODULE Spec2Model ----
(***************************************************************************)
(* Song library: the orchestration service (internal/service), its         *)
(* Postgres repository (internal/repository/postgres) and the request      *)
(* decoding of the HTTP transport (internal/handler/http).                  *)
(*                                                                         *)
(* The store is the songs table: a set of rows with a primary key id       *)
(* drawn from a SERIAL sequence.  Every handler is one action: the decode  *)
(* step, the endpoint, the service method and every repository statement   *)
(* it issues.  resp records what the last request was and what it          *)
(* returned, together with the port calls it made (calls).                 *)
(* SpecConcurrent instead takes UpdateSong and DeleteSong one store round  *)
(* trip at a time, so that the statements of two requests interleave.      *)
(*                                                                         *)
(* group_name and title are sequences of one-character strings, so that   *)
(* ILIKE patterns can be matched; text is a sequence of characters with    *)
(* "\n" the line break; release_date and link are opaque strings.          *)
(***************************************************************************)
EXTENDS Integers, Sequences, FiniteSets, TLC

VARIABLES
  store,   \* the rows of the songs table
  nextID,  \* the next value of the SERIAL sequence behind id
  clock,   \* the NOW() the latest write statement saw
  resp,    \* the last request: its inputs, its response, the port calls made
  fresh,   \* history: the songs created and not since updated or deleted,
           \* with the inputs and the enrichment answer of their creation
  pending  \* per concurrent caller: the UpdateSong or DeleteSong call it has
           \* in flight between its two store round trips, or its last result

vars == <<store, nextID, clock, resp, fresh, pending>>

\* ------------------------------------------------------------- bounds
\* Values the SERIAL sequence may hand out.
MaxSongs == 2
\* Write statements that may run (each one sees a later NOW()).
MaxClock == 3
\* Largest numeric limit / offset / page / pageSize query parameter tried.
MaxParam == 2

\* ------------------------------------------------------------- inputs
Text3 == <<"a", "\n", "\n", "b", "\n", "\n", "c">>
Text1 == <<"d">>

\* The (group, song) bodies of POST /songs that are tried.
CreateRequests == {[groupName |-> <<"A", "b">>, title |-> <<"a">>],
                   [groupName |-> <<"b">>, title |-> <<>>]}

\* What the enrichment provider holds for a (group, song): a full record for
\* the first request, and for the second a body whose text and link are
\* missing (they decode to empty strings).  The release date is always
\* present: the release_date column is a DATE and takes no empty value.
Provider(groupName, songTitle) ==
  IF songTitle = <<"a">>
    THEN [releaseDate |-> "2006-07-16", text |-> Text3, link |-> "l1"]
    ELSE [releaseDate |-> "2000-01-01", text |-> <<>>, link |-> ""]

\* The enrichment call failed: timeout, transport error, non-200, bad JSON.
FetchError == [releaseDate |-> "error", text |-> <<"error">>, link |-> "error"]

\* A numeric query parameter as it arrives: <<n>> for the digits of n, and
\* <<>> when it is absent (or not a number, which strconv.Atoi treats alike).
Absent == <<>>
Num(S) == {<<n>> : n \in S}
LimitParams == {Absent} \cup Num(-1 .. MaxParam)
OffsetParams == {Absent} \cup Num(0 .. MaxParam)
PageParams == {Absent} \cup Num({-1, 10} \cup (1 .. MaxParam))
PageSizeParams == {Absent} \cup Num({-1} \cup (1 .. MaxParam))

\* The group and title query parameters tried ("" when absent).
GroupFilters == {<<>>, <<"B">>, <<"_">>}
TitleFilters == {<<>>, <<"A">>}

IDs == 1 .. (MaxSongs + 1)

\* The requests that may be in flight at once when handlers interleave.
Callers == {"c1", "c2"}

OK == ""

\* ------------------------------------------------------------ helpers
Min(a, b) == IF a < b THEN a ELSE b

Range(s) == {s[i] : i \in 1 .. Len(s)}

\* ---------------------------------------------------------- repository
\* INSERT ... VALUES ($1..$5, NOW(), NOW()) RETURNING id
RepoCreate(st, song, id, now) ==
  st \cup {[id |-> id,
            groupName |-> song.groupName,
            title |-> song.title,
            releaseDate |-> song.releaseDate,
            link |-> song.link,
            text |-> song.text,
            createdAt |-> now,
            updatedAt |-> now]}

\* SELECT ... WHERE id = $1 LIMIT 1: the row, or none (sql.ErrNoRows -> nil, nil).
RepoGetByID(st, id) == {r \in st : r.id = id}

\* Update that stamps created_at as well.
RepoUpdate_restamps(st, song, now) ==
  {IF r.id = song.id
     THEN [r EXCEPT !.groupName = song.groupName,
                    !.title = song.title,
                    !.releaseDate = song.releaseDate,
                    !.link = song.link,
                    !.text = song.text,
                    !.createdAt = now,
                    !.updatedAt = now]
     ELSE r : r \in st}

\* Update as an upsert: a row that is missing is inserted.
RepoUpdate_upsert(st, song, now) ==
  IF RepoGetByID(st, song.id) = {}
    THEN RepoCreate(st, song, song.id, now)
    ELSE {IF r.id = song.id
            THEN [r EXCEPT !.groupName = song.groupName,
                           !.title = song.title,
                           !.releaseDate = song.releaseDate,
                           !.link = song.link,
                           !.text = song.text,
                           !.updatedAt = now]
            ELSE r : r \in st}

\* UPDATE songs SET <five fields>, updated_at = NOW() WHERE id = $6.
\* No row matching is no error and no change.
RepoUpdate(st, song, now) ==
  {IF r.id = song.id
     THEN [r EXCEPT !.groupName = song.groupName,
                    !.title = song.title,
                    !.releaseDate = song.releaseDate,
                    !.link = song.link,
                    !.text = song.text,
                    !.updatedAt = now]
     ELSE r : r \in st}

\* DELETE FROM songs WHERE id = $1
RepoDelete(st, id) == {r \in st : r.id # id}

\* lower() as ILIKE applies it to both sides.
Lower(c) == IF c = "A" THEN "a" ELSE IF c = "B" THEN "b" ELSE c

LowerSeq(s) == [i \in 1 .. Len(s) |-> Lower(s[i])]

\* LIKE: % matches any run of characters, _ any one character, and a
\* backslash takes the next pattern character literally.
RECURSIVE Like(_, _)
Like(s, p) ==
  IF p = <<>> THEN s = <<>>
  ELSE IF Head(p) = "%"
    THEN Like(s, Tail(p)) \/ (s # <<>> /\ Like(Tail(s), p))
  ELSE IF Head(p) = "\\"
    THEN /\ Len(p) >= 2
         /\ s # <<>>
         /\ Head(s) = p[2]
         /\ Like(Tail(s), SubSeq(p, 3, Len(p)))
  ELSE IF Head(p) = "_"
    THEN s # <<>> /\ Like(Tail(s), Tail(p))
  ELSE s # <<>> /\ Head(s) = Head(p) /\ Like(Tail(s), Tail(p))

ILike(s, p) == Like(LowerSeq(s), LowerSeq(p))

\* The WHERE clause GetAll builds: one ILIKE '%' || value || '%' per
\* non-empty filter field, joined by AND.
Where(r, filter) ==
  /\ filter.groupName # <<>> => ILike(r.groupName, <<"%">> \o filter.groupName \o <<"%">>)
  /\ filter.title # <<>> => ILike(r.title, <<"%">> \o filter.title \o <<"%">>)

\* ORDER BY id DESC
RECURSIVE OrderByIdDesc(_)
OrderByIdDesc(rows) ==
  IF rows = {} THEN <<>>
  ELSE LET top == CHOOSE r \in rows : \A q \in rows : q.id <= r.id
       IN <<top>> \o OrderByIdDesc(rows \ {top})

\* SELECT ... [WHERE ...] ORDER BY id DESC LIMIT limit OFFSET offset.
\* Postgres rejects a negative LIMIT or OFFSET.
RepoGetAll(st, filter, limit, offset) ==
  IF limit < 0 \/ offset < 0
    THEN [err |-> "failed to get songs", songs |-> <<>>]
    ELSE LET ordered == OrderByIdDesc({r \in st : Where(r, filter)})
         IN [err |-> OK,
             songs |-> SubSeq(ordered, offset + 1, Min(offset + limit, Len(ordered)))]

\* ------------------------------------------------------------ transport
\* strconv.Atoi with its error dropped: 0 for an absent or malformed value.
Atoi(param) == IF param = Absent THEN 0 ELSE param[1]

decodeListSongsRequest(group, title, limitParam, offsetParam) ==
  [groupName |-> group, title |-> title,
   limit |-> Atoi(limitParam), offset |-> Atoi(offsetParam)]

decodeGetLyricsRequest(id, pageParam, pageSizeParam) ==
  [id |-> id,
   page |-> IF Atoi(pageParam) < 1 THEN 1 ELSE Atoi(pageParam),
   pageSize |-> IF Atoi(pageSizeParam) < 1 THEN 1 ELSE Atoi(pageSizeParam)]

\* ------------------------------------------------------------- service
\* NewSong with the release date and the link taken from each other's field.
NewSong_swapped(groupName, songTitle, songInfo) ==
  [groupName |-> groupName,
   title |-> songTitle,
   releaseDate |-> songInfo.link,
   link |-> songInfo.releaseDate,
   text |-> songInfo.text]

\* The Song CreateSong assembles from its inputs and the enrichment answer.
NewSong(groupName, songTitle, songInfo) ==
  [groupName |-> groupName,
   title |-> songTitle,
   releaseDate |-> songInfo.releaseDate,
   link |-> songInfo.link,
   text |-> songInfo.text]

\* CreateSong made best-effort: a failed enrichment is dropped and the record
\* is inserted with empty enrichment fields.
SvcCreateSong_bestEffort(st, nid, now, groupName, songTitle, fetched, fault) ==
  IF fault = "Create"
    THEN [store |-> st, wrote |-> FALSE,
          err |-> "failed to create new song", id |-> 0,
          calls |-> <<"FetchSongInfo", "Create">>, failed |-> "Create"]
  ELSE [store |-> RepoCreate(st,
                             [groupName |-> groupName, title |-> songTitle,
                              releaseDate |-> IF fetched = FetchError THEN "" ELSE fetched.releaseDate,
                              link |-> IF fetched = FetchError THEN "" ELSE fetched.link,
                              text |-> IF fetched = FetchError THEN <<>> ELSE fetched.text],
                             nid, now),
        wrote |-> TRUE, err |-> OK, id |-> nid,
        calls |-> <<"FetchSongInfo", "Create">>,
        failed |-> IF fetched = FetchError THEN "FetchSongInfo" ELSE "none"]

\* CreateSong: fetch enrichment, fail fast, insert.  fetched is the answer
\* of the enrichment provider, or FetchError; fault names the store call
\* that fails, if any.  Each result names the port calls made (calls) and
\* the one that failed (failed).
SvcCreateSong(st, nid, now, groupName, songTitle, fetched, fault) ==
  IF fetched = FetchError
    THEN [store |-> st, wrote |-> FALSE,
          err |-> "failed to fetch external data", id |-> 0,
          calls |-> <<"FetchSongInfo">>, failed |-> "FetchSongInfo"]
  ELSE IF fault = "Create"
    THEN [store |-> st, wrote |-> FALSE,
          err |-> "failed to create new song", id |-> 0,
          calls |-> <<"FetchSongInfo", "Create">>, failed |-> "Create"]
  ELSE [store |-> RepoCreate(st, NewSong(groupName, songTitle, fetched), nid, now),
        wrote |-> TRUE, err |-> OK, id |-> nid,
        calls |-> <<"FetchSongInfo", "Create">>, failed |-> "none"]

\* GetSong that reports a failed lookup as a missing song.
SvcGetSong_conflated(st, songID, fault) ==
  IF fault = "GetByID" \/ RepoGetByID(st, songID) = {}
    THEN [err |-> "song not found", song |-> {},
          calls |-> <<"GetByID">>,
          failed |-> IF fault = "GetByID" THEN "GetByID" ELSE "none"]
  ELSE [err |-> OK, song |-> RepoGetByID(st, songID),
        calls |-> <<"GetByID">>, failed |-> "none"]

\* GetSong: lookup, nil means not found.
SvcGetSong(st, songID, fault) ==
  IF fault = "GetByID"
    THEN [err |-> "failed to retrieve song", song |-> {},
          calls |-> <<"GetByID">>, failed |-> "GetByID"]
  ELSE IF RepoGetByID(st, songID) = {}
    THEN [err |-> "song not found", song |-> {},
          calls |-> <<"GetByID">>, failed |-> "none"]
  ELSE [err |-> OK, song |-> RepoGetByID(st, songID),
        calls |-> <<"GetByID">>, failed |-> "none"]

\* ListSongs: pass-through to GetAll.
SvcListSongs(st, filter, limit, offset, fault) ==
  IF fault = "GetAll"
    THEN [err |-> "failed to list songs", songs |-> <<>>,
          calls |-> <<"GetAll">>, failed |-> "GetAll"]
  ELSE LET r == RepoGetAll(st, filter, limit, offset)
       IN IF r.err # OK
            THEN [err |-> "failed to list songs", songs |-> <<>>,
                  calls |-> <<"GetAll">>, failed |-> "GetAll"]
            ELSE [err |-> OK, songs |-> r.songs,
                  calls |-> <<"GetAll">>, failed |-> "none"]

SplitByDoubleNewline(text) == <<>>

splitByVerse(text) == SplitByDoubleNewline(text)

\* GetSongLyrics: lookup, split, window.  The page and pageSize tried are far
\* below the range of a Go int, so no product or sum wraps.
SvcGetSongLyrics(st, id, page, pageSize, fault) ==
  IF fault = "GetByID"
    THEN [err |-> "failed to get song by ID", lyrics |-> <<>>, total |-> 0,
          calls |-> <<"GetByID">>, failed |-> "GetByID"]
  ELSE IF RepoGetByID(st, id) = {}
    THEN [err |-> "song not found", lyrics |-> <<>>, total |-> 0,
          calls |-> <<"GetByID">>, failed |-> "none"]
  ELSE LET song == CHOOSE r \in RepoGetByID(st, id) : TRUE
           verses == splitByVerse(song.text)
           total == Len(verses)
           start0 == (page - 1) * pageSize
           start == IF start0 < 0 THEN 0 ELSE start0
           end0 == start + pageSize
           end == IF end0 > total THEN total ELSE end0
       IN IF start >= total
            THEN [err |-> OK, lyrics |-> <<>>, total |-> total,
                  calls |-> <<"GetByID">>, failed |-> "none"]
          ELSE IF end < start
            THEN [err |-> "panic: slice bounds out of range", lyrics |-> <<>>,
                  total |-> 0, calls |-> <<"GetByID">>, failed |-> "none"]
          ELSE [err |-> OK, lyrics |-> SubSeq(verses, start + 1, end), total |-> total,
                calls |-> <<"GetByID">>, failed |-> "none"]

\* Merge without the empty checks: the incoming record replaces the row.
Merge_replace(song, existing) ==
  [id |-> song.id,
   groupName |-> song.groupName,
   title |-> song.title,
   releaseDate |-> song.releaseDate,
   link |-> song.link,
   text |-> song.text]

\* Merge whose title branch falls back to the existing group name.
Merge_wrongFallback(song, existing) ==
  [id |-> song.id,
   groupName |-> IF song.groupName = <<>> THEN existing.groupName ELSE song.groupName,
   title |-> IF song.title = <<>> THEN existing.groupName ELSE song.title,
   releaseDate |-> IF song.releaseDate = "" THEN existing.releaseDate ELSE song.releaseDate,
   link |-> IF song.link = "" THEN existing.link ELSE song.link,
   text |-> IF song.text = <<>> THEN existing.text ELSE song.text]

\* The merge of UpdateSong: an empty incoming field keeps the existing value.
Merge(song, existing) ==
  [id |-> song.id,
   groupName |-> IF song.groupName = <<>> THEN existing.groupName ELSE song.groupName,
   title |-> IF song.title = <<>> THEN existing.title ELSE song.title,
   releaseDate |-> IF song.releaseDate = "" THEN existing.releaseDate ELSE song.releaseDate,
   link |-> IF song.link = "" THEN existing.link ELSE song.link,
   text |-> IF song.text = <<>> THEN existing.text ELSE song.text]

\* UpdateSong that swallows a failed repo.Update and reports success.
SvcUpdateSong_swallows(st, now, song, fault) ==
  IF fault = "GetByID"
    THEN [store |-> st, wrote |-> FALSE, err |-> "failed to fetch existing song",
          calls |-> <<"GetByID">>, failed |-> "GetByID"]
  ELSE IF RepoGetByID(st, song.id) = {}
    THEN [store |-> st, wrote |-> FALSE, err |-> "song not found",
          calls |-> <<"GetByID">>, failed |-> "none"]
  ELSE [store |-> st, wrote |-> FALSE, err |-> OK,
        calls |-> <<"GetByID", "Update">>,
        failed |-> IF fault = "Update" THEN "Update" ELSE "none"]

\* UpdateSong: existence check, merge, full-row update.
SvcUpdateSong(st, now, song, fault) ==
  IF fault = "GetByID"
    THEN [store |-> st, wrote |-> FALSE, err |-> "failed to fetch existing song",
          calls |-> <<"GetByID">>, failed |-> "GetByID"]
  ELSE IF RepoGetByID(st, song.id) = {}
    THEN [store |-> st, wrote |-> FALSE, err |-> "song not found",
          calls |-> <<"GetByID">>, failed |-> "none"]
  ELSE IF fault = "Update"
    THEN [store |-> st, wrote |-> FALSE, err |-> "failed to update song",
          calls |-> <<"GetByID", "Update">>, failed |-> "Update"]
  ELSE LET existing == CHOOSE r \in RepoGetByID(st, song.id) : TRUE
       IN [store |-> RepoUpdate(st, Merge(song, existing), now), wrote |-> TRUE,
           err |-> OK, calls |-> <<"GetByID", "Update">>, failed |-> "none"]

\* DeleteSong without the existence check.
SvcDeleteSong_unchecked(st, songID, fault) ==
  IF fault = "Delete"
    THEN [store |-> st, wrote |-> FALSE, err |-> "failed to delete song",
          calls |-> <<"Delete">>, failed |-> "Delete"]
  ELSE [store |-> RepoDelete(st, songID), wrote |-> RepoGetByID(st, songID) # {},
        err |-> OK, calls |-> <<"Delete">>, failed |-> "none"]

\* DeleteSong: existence check, delete.
SvcDeleteSong(st, songID, fault) ==
  IF fault = "GetByID"
    THEN [store |-> st, wrote |-> FALSE, err |-> "failed to fetch existing song",
          calls |-> <<"GetByID">>, failed |-> "GetByID"]
  ELSE IF RepoGetByID(st, songID) = {}
    THEN [store |-> st, wrote |-> FALSE, err |-> "song not found",
          calls |-> <<"GetByID">>, failed |-> "none"]
  ELSE IF fault = "Delete"
    THEN [store |-> st, wrote |-> FALSE, err |-> "failed to delete song",
          calls |-> <<"GetByID", "Delete">>, failed |-> "Delete"]
  ELSE [store |-> RepoDelete(st, songID), wrote |-> TRUE,
        err |-> OK, calls |-> <<"GetByID", "Delete">>, failed |-> "none"]

\* UpdateSong up to its existence check: the first store round trip.
SvcUpdateSongCheck(st, song, fault) ==
  IF fault = "GetByID"
    THEN [pc |-> "done", err |-> "failed to fetch existing song", existing |-> {},
          calls |-> <<"GetByID">>, failed |-> "GetByID"]
  ELSE IF RepoGetByID(st, song.id) = {}
    THEN [pc |-> "done", err |-> "song not found", existing |-> {},
          calls |-> <<"GetByID">>, failed |-> "none"]
  ELSE [pc |-> "act", err |-> OK, existing |-> RepoGetByID(st, song.id),
        calls |-> <<"GetByID">>, failed |-> "none"]

\* UpdateSong whose second round trip merges against the row as it is now
\* (a read-modify-write in one transaction) instead of the row the check read.
SvcUpdateSongAct_rereads(st, now, song, existing, fault) ==
  IF fault = "Update"
    THEN [store |-> st, wrote |-> FALSE, err |-> "failed to update song",
          calls |-> <<"GetByID", "Update">>, failed |-> "Update"]
  ELSE LET current == IF RepoGetByID(st, song.id) = {}
                        THEN existing
                        ELSE CHOOSE r \in RepoGetByID(st, song.id) : TRUE
       IN [store |-> RepoUpdate(st, Merge(song, current), now),
           wrote |-> RepoGetByID(st, song.id) # {},
           err |-> OK, calls |-> <<"GetByID", "Update">>, failed |-> "none"]

\* UpdateSong from the merge on: the second store round trip, with the row
\* the check read.  wrote tells whether the UPDATE matched a row.
SvcUpdateSongAct(st, now, song, existing, fault) ==
  IF fault = "Update"
    THEN [store |-> st, wrote |-> FALSE, err |-> "failed to update song",
          calls |-> <<"GetByID", "Update">>, failed |-> "Update"]
  ELSE [store |-> RepoUpdate(st, Merge(song, existing), now),
        wrote |-> RepoGetByID(st, song.id) # {},
        err |-> OK, calls |-> <<"GetByID", "Update">>, failed |-> "none"]

\* DeleteSong up to its existence check.
SvcDeleteSongCheck(st, songID, fault) ==
  IF fault = "GetByID"
    THEN [pc |-> "done", err |-> "failed to fetch existing song", existing |-> {},
          calls |-> <<"GetByID">>, failed |-> "GetByID"]
  ELSE IF RepoGetByID(st, songID) = {}
    THEN [pc |-> "done", err |-> "song not found", existing |-> {},
          calls |-> <<"GetByID">>, failed |-> "none"]
  ELSE [pc |-> "act", err |-> OK, existing |-> RepoGetByID(st, songID),
        calls |-> <<"GetByID">>, failed |-> "none"]

\* DeleteSong whose second round trip reports a DELETE that matched no row.
SvcDeleteSongAct_strict(st, songID, fault) ==
  IF fault = "Delete"
    THEN [store |-> st, wrote |-> FALSE, err |-> "failed to delete song",
          calls |-> <<"GetByID", "Delete">>, failed |-> "Delete"]
  ELSE [store |-> RepoDelete(st, songID),
        wrote |-> RepoGetByID(st, songID) # {},
        err |-> IF RepoGetByID(st, songID) = {} THEN "song not found" ELSE OK,
        calls |-> <<"GetByID", "Delete">>, failed |-> "none"]

\* DeleteSong from repo.Delete on.  wrote tells whether the DELETE matched
\* a row.
SvcDeleteSongAct(st, songID, fault) ==
  IF fault = "Delete"
    THEN [store |-> st, wrote |-> FALSE, err |-> "failed to delete song",
          calls |-> <<"GetByID", "Delete">>, failed |-> "Delete"]
  ELSE [store |-> RepoDelete(st, songID),
        wrote |-> RepoGetByID(st, songID) # {},
        err |-> OK, calls |-> <<"GetByID", "Delete">>, failed |-> "none"]

\* A Song value with only its id set (the zero value of every other field).
EmptySong(id) ==
  [id |-> id, groupName |-> <<>>, title |-> <<>>, releaseDate |-> "",
   link |-> "", text |-> <<>>]

\* A caller with no call made yet.
IdleCall ==
  [op |-> "none", pc |-> "done", song |-> EmptySong(0), existing |-> {},
   err |-> OK, calls |-> <<>>, failed |-> "none", modified |-> 0, at |-> 0]

\* ------------------------------------------------------------- actions
Init ==
  /\ store = {}
  /\ nextID = 1
  /\ clock = 0
  /\ fresh = {}
  /\ resp = [op |-> "none"]
  /\ pending = [w \in Callers |-> IdleCall]

CreateSong(groupName, songTitle, fetched, fault) ==
  /\ nextID <= MaxSongs
  /\ clock < MaxClock
  /\ LET r == SvcCreateSong(store, nextID, clock + 1, groupName, songTitle, fetched, fault)
     IN /\ store' = r.store
        /\ nextID' = IF r.wrote THEN nextID + 1 ELSE nextID
        /\ clock' = IF r.wrote THEN clock + 1 ELSE clock
        /\ fresh' = IF r.wrote
                       THEN fresh \cup {[id |-> r.id, groupName |-> groupName,
                                         title |-> songTitle, info |-> fetched]}
                       ELSE fresh
        /\ resp' = [op |-> "CreateSong", groupName |-> groupName, title |-> songTitle,
                    fetched |-> fetched, err |-> r.err, id |-> r.id,
                    calls |-> r.calls, failed |-> r.failed]
  /\ UNCHANGED pending

GetSong(songID, fault) ==
  /\ LET r == SvcGetSong(store, songID, fault)
     IN resp' = [op |-> "GetSong", id |-> songID, err |-> r.err, song |-> r.song,
                 calls |-> r.calls, failed |-> r.failed]
  /\ UNCHANGED <<store, nextID, clock, fresh, pending>>

\* The request body of PUT /songs/{id}: every field is empty or a new value.
NonEmptyFields(song) ==
  {f \in {"groupName", "title", "text"} : song[f] # <<>>}
    \cup {f \in {"releaseDate", "link"} : song[f] # ""}

\* Tried: no field, each single field, and all five.
UpdateRequests ==
  {u \in [id : IDs,
          groupName : {<<>>, <<"a">>},
          title : {<<>>, <<"b">>},
          releaseDate : {"", "1999-01-01"},
          link : {"", "l2"},
          text : {<<>>, Text1}] : Cardinality(NonEmptyFields(u)) \in {0, 1, 5}}

UpdateSong(song, fault) ==
  /\ clock < MaxClock
  /\ LET r == SvcUpdateSong(store, clock + 1, song, fault)
     IN /\ store' = r.store
        /\ clock' = IF r.wrote THEN clock + 1 ELSE clock
        /\ fresh' = IF r.wrote THEN {c \in fresh : c.id # song.id} ELSE fresh
        /\ resp' = [op |-> "UpdateSong", id |-> song.id, song |-> song,
                    err |-> r.err, calls |-> r.calls, failed |-> r.failed]
  /\ UNCHANGED <<nextID, pending>>

DeleteSong(songID, fault) ==
  /\ LET r == SvcDeleteSong(store, songID, fault)
     IN /\ store' = r.store
        /\ fresh' = IF r.wrote THEN {c \in fresh : c.id # songID} ELSE fresh
        /\ resp' = [op |-> "DeleteSong", id |-> songID,
                    err |-> r.err, calls |-> r.calls, failed |-> r.failed]
  /\ UNCHANGED <<nextID, clock, pending>>

\* GET /songs: decode, endpoint, service.
ListSongs(group, title, limitParam, offsetParam, fault) ==
  /\ LET req == decodeListSongsRequest(group, title, limitParam, offsetParam)
         r == SvcListSongs(store, [groupName |-> req.groupName, title |-> req.title],
                           req.limit, req.offset, fault)
     IN resp' = [op |-> "ListSongs", groupName |-> req.groupName, title |-> req.title,
                 limitParam |-> limitParam, offsetParam |-> offsetParam,
                 limit |-> req.limit, offset |-> req.offset,
                 err |-> r.err, songs |-> r.songs,
                 calls |-> r.calls, failed |-> r.failed]
  /\ UNCHANGED <<store, nextID, clock, fresh, pending>>

\* GET /songs/{id}/lyrics: decode, endpoint, service.
GetLyrics(id, pageParam, pageSizeParam, fault) ==
  /\ LET req == decodeGetLyricsRequest(id, pageParam, pageSizeParam)
         r == SvcGetSongLyrics(store, req.id, req.page, req.pageSize, fault)
     IN resp' = [op |-> "GetLyrics", id |-> req.id,
                 pageParam |-> pageParam, pageSizeParam |-> pageSizeParam,
                 page |-> req.page, pageSize |-> req.pageSize,
                 err |-> r.err, lyrics |-> r.lyrics, total |-> r.total,
                 calls |-> r.calls, failed |-> r.failed]
  /\ UNCHANGED <<store, nextID, clock, fresh, pending>>

Creates ==
  \E c \in CreateRequests, f \in {"none", "Create"} :
    \E i \in {Provider(c.groupName, c.title), FetchError} :
      CreateSong(c.groupName, c.title, i, f)

Deletes == \E id \in IDs, f \in {"none", "GetByID", "Delete"} : DeleteSong(id, f)

Next ==
  \/ Creates
  \/ \E id \in IDs, f \in {"none", "GetByID"} : GetSong(id, f)
  \/ \E u \in UpdateRequests, f \in {"none", "GetByID", "Update"} : UpdateSong(u, f)
  \/ Deletes

Spec == Init /\ [][Next]_vars

\* The catalogue queries over the stores that creating and deleting reach.
NextList ==
  \/ Creates
  \/ Deletes
  \/ \E g \in GroupFilters, t \in TitleFilters, l \in LimitParams, o \in OffsetParams,
        f \in {"none", "GetAll"} : ListSongs(g, t, l, o, f)

SpecList == Init /\ [][NextList]_vars

\* The lyric pages over the stores that creating and deleting reach.
NextLyrics ==
  \/ Creates
  \/ Deletes
  \/ \E id \in IDs, p \in PageParams, ps \in PageSizeParams, f \in {"none", "GetByID"} :
       GetLyrics(id, p, ps, f)

SpecLyrics == Init /\ [][NextLyrics]_vars

\* All six operations together, the two queries with a few parameters each.
NextAll ==
  \/ Creates
  \/ \E id \in IDs, f \in {"none", "GetByID"} : GetSong(id, f)
  \/ \E u \in UpdateRequests, f \in {"none", "GetByID", "Update"} : UpdateSong(u, f)
  \/ Deletes
  \/ \E g \in {<<>>, <<"B">>}, l \in {Absent, <<-1>>, <<1>>}, f \in {"none", "GetAll"} :
       ListSongs(g, <<>>, l, Absent, f)
  \/ \E id \in IDs, f \in {"none", "GetByID"} : GetLyrics(id, Absent, Absent, f)

SpecAll == Init /\ [][NextAll]_vars

\* ------------------------------------------- interleaved handlers
\* A handler of UpdateSong or DeleteSong holds no lock and no transaction
\* between its two store round trips, so the statements of concurrent
\* requests interleave.  Each round trip is one step of its caller; the
\* response goes to the caller (pending[w]) and resp names that caller.
UpdateSongCheck(w, song, fault) ==
  /\ pending[w].pc = "done"
  /\ LET r == SvcUpdateSongCheck(store, song, fault)
     IN /\ pending' = [pending EXCEPT ![w] =
                         [op |-> "UpdateSong", pc |-> r.pc, song |-> song,
                          existing |-> r.existing, err |-> r.err, calls |-> r.calls,
                          failed |-> r.failed, modified |-> 0, at |-> 0]]
        /\ resp' = IF r.pc = "done"
                      THEN [op |-> "UpdateSong", caller |-> w]
                      ELSE resp
  /\ UNCHANGED <<store, nextID, clock, fresh>>

UpdateSongAct(w, fault) ==
  /\ pending[w].op = "UpdateSong"
  /\ pending[w].pc = "act"
  /\ clock < MaxClock
  /\ LET call == pending[w]
         existing == CHOOSE r \in call.existing : TRUE
         r == SvcUpdateSongAct(store, clock + 1, call.song, existing, fault)
     IN /\ store' = r.store
        /\ clock' = IF r.wrote THEN clock + 1 ELSE clock
        /\ fresh' = IF r.wrote THEN {c \in fresh : c.id # call.song.id} ELSE fresh
        /\ pending' = [pending EXCEPT ![w] =
                         [call EXCEPT !.pc = "done", !.err = r.err, !.calls = r.calls,
                                      !.failed = r.failed,
                                      !.modified = IF r.wrote THEN 1 ELSE 0,
                                      !.at = IF r.wrote THEN clock + 1 ELSE 0]]
        /\ resp' = [op |-> "UpdateSong", caller |-> w]
  /\ UNCHANGED nextID

DeleteSongCheck(w, songID, fault) ==
  /\ pending[w].pc = "done"
  /\ LET r == SvcDeleteSongCheck(store, songID, fault)
     IN /\ pending' = [pending EXCEPT ![w] =
                         [op |-> "DeleteSong", pc |-> r.pc, song |-> EmptySong(songID),
                          existing |-> r.existing, err |-> r.err, calls |-> r.calls,
                          failed |-> r.failed, modified |-> 0, at |-> 0]]
        /\ resp' = IF r.pc = "done"
                      THEN [op |-> "DeleteSong", caller |-> w]
                      ELSE resp
  /\ UNCHANGED <<store, nextID, clock, fresh>>

DeleteSongAct(w, fault) ==
  /\ pending[w].op = "DeleteSong"
  /\ pending[w].pc = "act"
  /\ LET call == pending[w]
         r == SvcDeleteSongAct(store, call.song.id, fault)
     IN /\ store' = r.store
        /\ fresh' = IF r.wrote THEN {c \in fresh : c.id # call.song.id} ELSE fresh
        /\ pending' = [pending EXCEPT ![w] =
                         [call EXCEPT !.pc = "done", !.err = r.err, !.calls = r.calls,
                                      !.failed = r.failed,
                                      !.modified = IF r.wrote THEN 1 ELSE 0]]
        /\ resp' = [op |-> "DeleteSong", caller |-> w]
  /\ UNCHANGED <<nextID, clock>>

\* The ids addressed when handlers interleave: those the sequence hands out.
ConcurrentIDs == 1 .. MaxSongs

\* The update bodies tried when handlers interleave: one field set, the
\* group name or the link.
ConcurrentUpdates ==
  {u \in UpdateRequests :
     u.id \in ConcurrentIDs /\ NonEmptyFields(u) \in {{"groupName"}, {"link"}}}

\* Creating, updating and deleting with the round trips of up to two
\* callers interleaved; the port calls of these runs do not fail.
NextConcurrent ==
  \/ \E c \in CreateRequests :
       CreateSong(c.groupName, c.title, Provider(c.groupName, c.title), "none")
  \/ \E w \in Callers, u \in ConcurrentUpdates : UpdateSongCheck(w, u, "none")
  \/ \E w \in Callers : UpdateSongAct(w, "none")
  \/ \E w \in Callers, id \in ConcurrentIDs : DeleteSongCheck(w, id, "none")
  \/ \E w \in Callers : DeleteSongAct(w, "none")

SpecConcurrent == Init /\ [][NextConcurrent]_vars

\* ------------------------------------------------------------- claims
MutableFields == {"groupName", "title", "releaseDate", "link", "text"}

\* C1: when the enrichment call of CreateSong fails, CreateSong returns a
\* failure, repo.Create is not called, and the store (its rows and their
\* number) is as before, whatever the group, the title and the prior store.
C1_EnrichmentFailurePersistsNothing ==
  [][(resp'.op = "CreateSong" /\ resp'.fetched = FetchError)
       => /\ resp'.err # OK
          /\ "Create" \notin Range(resp'.calls)
          /\ store' = store
          /\ Cardinality(store') = Cardinality(store)]_vars

C1_Witness ==
  /\ resp.op = "CreateSong"
  /\ resp.fetched = FetchError
  /\ resp.err # OK
  /\ store # {}

C3_EmptyUpdateOnlyTouchesUpdatedAt ==
  [][(/\ resp'.op = "UpdateSong"
      /\ NonEmptyFields(resp'.song) = {}
      /\ RepoGetByID(store, resp'.id) # {}
      /\ resp'.failed = "none")
       => /\ resp'.err = OK
          /\ \E old \in store, new \in store' :
               /\ old.id = resp'.id
               /\ new.id = old.id
               /\ new.updatedAt > old.updatedAt
               /\ [new EXCEPT !.updatedAt = old.updatedAt] = old
               /\ store' \ {new} = store \ {old}]_vars

C3_Witness ==
  /\ resp.op = "UpdateSong"
  /\ NonEmptyFields(resp.song) = {}
  /\ resp.err = OK
  /\ \E r \in store : r.id = resp.id /\ r.text = Text3 /\ r.updatedAt > r.createdAt

\* C4: UpdateSong on an existing song with exactly one non-empty mutable field
\* sets that field to the incoming value and keeps the other four mutable
\* fields, id and createdAt of the row; no other row changes.
C4_SingleFieldUpdate ==
  [][(/\ resp'.op = "UpdateSong"
      /\ Cardinality(NonEmptyFields(resp'.song)) = 1
      /\ RepoGetByID(store, resp'.id) # {}
      /\ resp'.failed = "none")
       => /\ resp'.err = OK
          /\ \E old \in store, new \in store' :
               /\ old.id = resp'.id
               /\ new.id = old.id
               /\ new.createdAt = old.createdAt
               /\ \A f \in MutableFields :
                    new[f] = IF f \in NonEmptyFields(resp'.song)
                               THEN resp'.song[f] ELSE old[f]
               /\ store' \ {new} = store \ {old}]_vars

C4_Witness ==
  /\ resp.op = "UpdateSong"
  /\ Cardinality(NonEmptyFields(resp.song)) = 1
  /\ resp.err = OK
  /\ Cardinality(store) >= 2
  /\ \E r \in store : r.id = resp.id /\ r.link = "l2" /\ r.text = Text3

\* C5: DeleteSong or UpdateSong with an id that has no row returns the
\* not-found failure (the lookup not failing), issues no repo.Delete or
\* repo.Update, and leaves the store as it was.
C5_MissingIdLeavesStore ==
  [][(/\ resp'.op \in {"DeleteSong", "UpdateSong"}
      /\ RepoGetByID(store, resp'.id) = {}
      /\ resp'.failed = "none")
       => /\ resp'.err = "song not found"
          /\ "Delete" \notin Range(resp'.calls)
          /\ "Update" \notin Range(resp'.calls)
          /\ store' = store
          /\ Cardinality(store') = Cardinality(store)]_vars

C5_Witness ==
  /\ resp.op \in {"DeleteSong", "UpdateSong"}
  /\ resp.err = "song not found"
  /\ RepoGetByID(store, resp.id) = {}
  /\ store # {}

\* The verses of a text as the specification defines them: the non-empty
\* segments between blank lines ("\n\n"), in document order.
RECURSIVE SplitOnBlankLines(_, _)
SplitOnBlankLines(text, cur) ==
  IF text = <<>> THEN <<cur>>
  ELSE IF Len(text) >= 2 /\ text[1] = "\n" /\ text[2] = "\n"
    THEN <<cur>> \o SplitOnBlankLines(SubSeq(text, 3, Len(text)), <<>>)
  ELSE SplitOnBlankLines(Tail(text), Append(cur, Head(text)))

ExpectedVerses(text) == SelectSeq(SplitOnBlankLines(text, <<>>), LAMBDA v : v # <<>>)

\* The lyrics request was served for a row that exists, the lookup not failing.
LyricsServed ==
  /\ resp.op = "GetLyrics"
  /\ resp.failed = "none"
  /\ RepoGetByID(store, resp.id) # {}

StoredText(id) == (CHOOSE r \in RepoGetByID(store, id) : TRUE).text

\* C6: GetLyrics on an existing song reports total = the number of verses of
\* the stored text (split on blank lines, in document order) and returns the
\* verses of the window [(page-1)*pageSize, (page-1)*pageSize+pageSize)
\* clipped to [0, total]; for a text of three verses, page 1 of size 1 is the
\* first verse, page 2 of size 2 the third, page 10 of size 1 empty, each
\* with total 3.
C6_LyricsWindow ==
  LyricsServed =>
    LET verses == ExpectedVerses(StoredText(resp.id))
        total == Len(verses)
        start == (resp.page - 1) * resp.pageSize
    IN /\ resp.err = OK
       /\ resp.total = total
       /\ resp.lyrics = SubSeq(verses, Min(start, total) + 1,
                               Min(start + resp.pageSize, total))

\* C7: for an existing song and any page and pageSize, GetLyrics clamps a
\* page below 1 and a pageSize below 1 up to 1, answers as for the clamped
\* values, never fails, and when the window starts at or beyond the number of
\* verses returns no verse together with that number as total.
C7_LyricsClamped ==
  LyricsServed =>
    LET page == IF Atoi(resp.pageParam) < 1 THEN 1 ELSE Atoi(resp.pageParam)
        pageSize == IF Atoi(resp.pageSizeParam) < 1 THEN 1 ELSE Atoi(resp.pageSizeParam)
        clamped == SvcGetSongLyrics(store, resp.id, page, pageSize, "none")
        total == Len(ExpectedVerses(StoredText(resp.id)))
    IN /\ resp.err = OK
       /\ resp.page = page /\ resp.pageSize = pageSize
       /\ resp.lyrics = clamped.lyrics /\ resp.total = clamped.total
       /\ (page - 1) * pageSize >= total => (resp.lyrics = <<>> /\ resp.total = total)

\* s contains sub, letter case ignored.
ContainsCI(s, sub) ==
  \E i \in 1 .. (Len(s) - Len(sub) + 1) :
    SubSeq(LowerSeq(s), i, i + Len(sub) - 1) = LowerSeq(sub)

\* The filter as the specification defines it: each present field is a
\* case-insensitive substring of the row's field.
SubstringFilter(r, groupName, title) ==
  /\ groupName # <<>> => ContainsCI(r.groupName, groupName)
  /\ title # <<>> => ContainsCI(r.title, title)

\* C8: ListSongs returns exactly the rows whose group name and title contain
\* the present filter values (case-insensitive substring; an empty filter
\* field constrains nothing), by descending id, cut to the at most limit rows
\* from position offset; a window beyond the result is empty, not an error.
C8_ListIsSubstringFilterWindow ==
  (resp.op = "ListSongs" /\ resp.failed = "none") =>
    LET ordered == OrderByIdDesc({r \in store :
                                   SubstringFilter(r, resp.groupName, resp.title)})
    IN /\ resp.err = OK
       /\ resp.songs = SubSeq(ordered, resp.offset + 1,
                              Min(resp.offset + resp.limit, Len(ordered)))

\* C9: a list request without a limit parameter uses limit 10 and one without
\* an offset parameter uses offset 0: with no limit and no offset given and
\* at least one matching row, the response holds min(10, matching rows) songs.
C9_DefaultLimitIsTen ==
  (resp.op = "ListSongs" /\ resp.failed = "none") =>
    LET matching == {r \in store :
                      Where(r, [groupName |-> resp.groupName, title |-> resp.title])}
    IN /\ resp.offsetParam = Absent => resp.offset = 0
       /\ (resp.limitParam = Absent /\ resp.offsetParam = Absent /\ matching # {})
            => Len(resp.songs) = Min(10, Cardinality(matching))

\* C10: a row's id and createdAt are those of its creation, and its updatedAt
\* is at least its createdAt: every row after a step either continues a row
\* with the same id and createdAt, or is the row a successful CreateSong has
\* just inserted under an id no row has.
C10_IdentityAndCreationTimeFixed ==
  [][\A new \in store' :
       /\ new.updatedAt >= new.createdAt
       /\ \/ \E old \in store : old.id = new.id /\ old.createdAt = new.createdAt
          \/ /\ resp'.op = "CreateSong"
             /\ resp'.err = OK
             /\ resp'.id = new.id
             /\ \A old \in store : old.id < new.id]_vars

C10_Witness ==
  /\ \E r \in store : r.id = 2 /\ r.updatedAt > r.createdAt
  /\ \A r \in store : r.id # 1
  /\ resp.op = "DeleteSong"
  /\ resp.err = OK

\* C11: GetSong returns the not-found failure exactly when the lookup
\* completes and finds no row with that id; when the lookup itself fails it
\* returns another failure and no row; when the row exists it returns that
\* row and no failure.  The three answers differ pairwise.
C11_GetSongOutcomes ==
  resp.op = "GetSong" =>
    LET found == RepoGetByID(store, resp.id)
    IN /\ resp.err = "song not found" <=> (resp.failed = "none" /\ found = {})
       /\ resp.failed = "GetByID" =>
            (resp.err = "failed to retrieve song" /\ resp.song = {})
       /\ (resp.failed = "none" /\ found # {}) =>
            (resp.err = OK /\ resp.song = found /\ Cardinality(found) = 1)
       /\ resp.err = OK <=> resp.song # {}

C11_Witness ==
  /\ resp.op = "GetSong"
  /\ resp.err = "song not found"
  /\ resp.failed = "none"
  /\ store # {}
  /\ \E r \in store : r.id > resp.id

\* C12: in every service operation (CreateSong, GetSong, ListSongs,
\* UpdateSong, DeleteSong, GetLyrics), when a store or enrichment call it
\* makes fails, the operation returns a failure, the failed call is the last
\* port call it makes, and the store is left as it was.
C12_NothingSwallowed ==
  [][resp'.failed # "none"
       => /\ resp'.err # OK
          /\ resp'.calls[Len(resp'.calls)] = resp'.failed
          /\ store' = store]_vars

C12_Witness ==
  /\ resp.op = "UpdateSong"
  /\ resp.failed = "Update"
  /\ resp.err = "failed to update song"
  /\ RepoGetByID(store, resp.id) # {}

\* C13: once a mutable field (groupName, title, releaseDate, link, text) of a
\* stored song is non-empty it stays non-empty for as long as the row
\* exists, in every sequence and every interleaving of UpdateSong calls: no
\* step turns a non-empty field of a row into an empty one.
C13_NonEmptyStaysNonEmpty ==
  [][\A old \in store, new \in store' :
       old.id = new.id => NonEmptyFields(old) \subseteq NonEmptyFields(new)]_vars

\* The last call of caller w was op on id, passed its existence check and
\* has returned from its second store round trip.
Acted(w, op, id) ==
  /\ pending[w].op = op
  /\ pending[w].song.id = id
  /\ pending[w].pc = "done"
  /\ pending[w].calls = <<"GetByID", IF op = "UpdateSong" THEN "Update" ELSE "Delete">>

\* C14: when two DeleteSong calls for the same id both pass their existence
\* check (both checks run before either repo.Delete), both report success
\* although exactly one of them removed the row: the repo.Delete that finds
\* the row already missing returns no error.
C14_DeleteReportsSuccessTwice ==
  \A a, b \in Callers, id \in IDs :
    (a # b /\ Acted(a, "DeleteSong", id) /\ Acted(b, "DeleteSong", id))
      => /\ pending[a].err = OK
         /\ pending[b].err = OK
         /\ pending[a].modified + pending[b].modified = 1
         /\ RepoGetByID(store, id) = {}

C14_Witness ==
  /\ Acted("c1", "DeleteSong", 1)
  /\ Acted("c2", "DeleteSong", 1)
  /\ pending["c1"].err = OK
  /\ pending["c2"].err = OK
  /\ pending["c1"].modified = 0
  /\ nextID = 3
  /\ Cardinality(store) = 1

\* The ids of the rows of a table.
IdsOf(st) == {r.id : r \in st}

\* C15: when the row has been deleted between the existence check of
\* UpdateSong and its repo.Update, UpdateSong still reports success, no row
\* is modified and the deleted row is not re-created; in every interleaving
\* the set of ids in the store grows only by the id a successful CreateSong
\* returns.
C15_UpdateAfterDeleteIsNoOp ==
  [][/\ \A w \in Callers :
          (/\ pending[w].op = "UpdateSong"
           /\ pending[w].pc = "act"
           /\ pending'[w].pc = "done"
           /\ RepoGetByID(store, pending[w].song.id) = {})
            => /\ pending'[w].err = OK
               /\ pending'[w].modified = 0
               /\ store' = store
     /\ IdsOf(store') \ IdsOf(store) # {}
          => /\ resp'.op = "CreateSong"
             /\ resp'.err = OK
             /\ IdsOf(store') \ IdsOf(store) = {resp'.id}]_vars

C15_Witness ==
  /\ Acted("c1", "UpdateSong", 1)
  /\ pending["c1"].err = OK
  /\ pending["c1"].modified = 0
  /\ Acted("c2", "DeleteSong", 1)
  /\ pending["c2"].modified = 1
  /\ resp = [op |-> "UpdateSong", caller |-> "c1"]
  /\ IdsOf(store) = {2}

\* Callers a and b each updated one field of row id, different fields, both
\* UPDATEs matched the row, b wrote after a, and b's write is the latest
\* write to the row.
TwoSingleFieldUpdates(a, b, id) ==
  /\ a # b
  /\ Acted(a, "UpdateSong", id)
  /\ Acted(b, "UpdateSong", id)
  /\ pending[a].modified = 1
  /\ pending[b].modified = 1
  /\ Cardinality(NonEmptyFields(pending[a].song)) = 1
  /\ Cardinality(NonEmptyFields(pending[b].song)) = 1
  /\ NonEmptyFields(pending[a].song) # NonEmptyFields(pending[b].song)
  /\ pending[a].at < pending[b].at
  /\ \E r \in store : r.id = id /\ r.updatedAt = pending[b].at

\* C16: two UpdateSong calls on the same existing song, each setting a
\* different single field, both report success.  When both read the row
\* before either wrote, the final row holds the later writer's field and
\* every other field, the earlier writer's included, at the value read
\* before the updates.  When the later writer read the row the earlier one
\* wrote (one call after the other), the final row holds both changes.
C16_LostUpdate ==
  \A a, b \in Callers, id \in IDs :
    TwoSingleFieldUpdates(a, b, id) =>
      LET r == CHOOSE x \in store : x.id = id
          A == pending[a].song
          B == pending[b].song
      IN /\ pending[a].err = OK
         /\ pending[b].err = OK
         /\ pending[a].existing = pending[b].existing =>
              \E old \in pending[a].existing :
                \A f \in MutableFields :
                  r[f] = IF f \in NonEmptyFields(B) THEN B[f] ELSE old[f]
         /\ (\E mid \in pending[b].existing : mid.updatedAt = pending[a].at) =>
              \E old \in pending[a].existing :
                \A f \in MutableFields :
                  r[f] = IF f \in NonEmptyFields(B) THEN B[f]
                         ELSE IF f \in NonEmptyFields(A) THEN A[f]
                         ELSE old[f]

C16_Witness ==
  /\ TwoSingleFieldUpdates("c1", "c2", 1)
  /\ pending["c1"].existing = pending["c2"].existing
  /\ pending["c1"].song.groupName = <<"a">>
  /\ pending["c2"].song.link = "l2"
  /\ \E r \in store :
       r.id = 1 /\ r.link = "l2" /\ r.groupName = <<"A", "b">> /\ r.text = Text3

\* The two calls of C16 one after the other: both changes are in the row.
C16_SequentialWitness ==
  /\ TwoSingleFieldUpdates("c1", "c2", 1)
  /\ \E mid \in pending["c2"].existing : mid.updatedAt = pending["c1"].at
  /\ \E r \in store : r.id = 1 /\ r.link = "l2" /\ r.groupName = <<"a">>
====
